---- MODULE Spec2Model ----
(***************************************************************************)
(* Model of the Apple 10-Q technology-mention pipeline: src/main.py (the   *)
(* OpenAI backend) and src/finbert.py (the FinBERT backend).  Both scripts *)
(* share get_technologies and find_context and differ in how main handles *)
(* missing files and how it reports the classifications.                   *)
(*                                                                         *)
(* Strings are sequences of one-character strings.  Positions in a string  *)
(* are 0-based, as in Python; Slice(s, a, b) is Python's s[a:b].           *)
(***************************************************************************)
EXTENDS Integers, Sequences, FiniteSets, TLC

(***************************************************************************)
(* Bounds of the model.                                                    *)
(***************************************************************************)
MaxPages == 2
MaxRows == 2
MaxWindow == 2

(***************************************************************************)
(* Characters: Python's \w, \s and str.lower on the characters used.       *)
(***************************************************************************)
UpperLetters ==
    {"A", "B", "C", "D", "E", "F", "G", "H", "I", "J", "K", "L", "M",
     "N", "O", "P", "Q", "R", "S", "T", "U", "V", "W", "X", "Y", "Z"}

LowerLetters ==
    {"a", "b", "c", "d", "e", "f", "g", "h", "i", "j", "k", "l", "m",
     "n", "o", "p", "q", "r", "s", "t", "u", "v", "w", "x", "y", "z"}

Digits == {"0", "1", "2", "3", "4", "5", "6", "7", "8", "9"}

LowerOf ==
    "A" :> "a" @@ "B" :> "b" @@ "C" :> "c" @@ "D" :> "d" @@ "E" :> "e" @@
    "F" :> "f" @@ "G" :> "g" @@ "H" :> "h" @@ "I" :> "i" @@ "J" :> "j" @@
    "K" :> "k" @@ "L" :> "l" @@ "M" :> "m" @@ "N" :> "n" @@ "O" :> "o" @@
    "P" :> "p" @@ "Q" :> "q" @@ "R" :> "r" @@ "S" :> "s" @@ "T" :> "t" @@
    "U" :> "u" @@ "V" :> "v" @@ "W" :> "w" @@ "X" :> "x" @@ "Y" :> "y" @@
    "Z" :> "z"

\* re.IGNORECASE compares characters by their case-folded form
Lower(c) == IF c \in UpperLetters THEN LowerOf[c] ELSE c

\* \w
IsWord(c) == c \in UpperLetters \cup LowerLetters \cup Digits \cup {"_"}

\* \s
IsSpace(c) == c \in {" ", "\n", "\t"}

Max(a, b) == IF a >= b THEN a ELSE b

Min(a, b) == IF a <= b THEN a ELSE b

\* a slice index brought into 0..n: a negative index counts from the end
SliceIndex(k, n) == IF k < 0 THEN Max(0, k + n) ELSE Min(k, n)

\* Python s[a:b]
Slice(s, a, b) ==
    LET lo == SliceIndex(a, Len(s))
        hi == SliceIndex(b, Len(s))
    IN IF lo >= hi THEN <<>> ELSE SubSeq(s, lo + 1, hi)

RECURSIVE Concat(_)
\* "".join(parts)
Concat(parts) ==
    IF parts = <<>> THEN <<>> ELSE Head(parts) \o Concat(Tail(parts))

(***************************************************************************)
(* str.strip, str.split(';') and the normalization of get_technologies.    *)
(***************************************************************************)
RECURSIVE LStrip(_)
LStrip(s) ==
    IF s # <<>> /\ IsSpace(Head(s)) THEN LStrip(Tail(s)) ELSE s

RECURSIVE RStrip(_)
RStrip(s) ==
    IF s # <<>> /\ IsSpace(s[Len(s)]) THEN RStrip(SubSeq(s, 1, Len(s) - 1)) ELSE s

\* s.strip()
Strip(s) == RStrip(LStrip(s))

\* the 0-based position of the first sep at or after pos, -1 when there is none
RECURSIVE IndexOf(_, _, _)
IndexOf(s, sep, pos) ==
    IF pos >= Len(s) THEN -1
    ELSE IF s[pos + 1] = sep THEN pos
    ELSE IndexOf(s, sep, pos + 1)

RECURSIVE Split(_, _)
\* s.split(sep): always at least one piece, empty pieces kept
Split(s, sep) ==
    LET p == IndexOf(s, sep, 0)
    IN IF p = -1 THEN <<s>>
       ELSE <<Slice(s, 0, p)>> \o Split(Slice(s, p + 1, Len(s)), sep)

\* a cell of df['technologies']: a string, or the NaN pandas delivers for a
\* missing value
NaN == [isna |-> TRUE, val |-> <<>>]

StrCell(s) == [isna |-> FALSE, val |-> s]

\* str(techs): the text of a string is the string, the text of NaN is "nan"
Str(techs) == IF techs.isna THEN <<"n", "a", "n">> ELSE techs.val

\* [t.strip() for t in str(techs).split(';')]
RowTechs(techs) ==
    LET pieces == Split(Str(techs), ";")
    IN [n \in 1..Len(pieces) |-> Strip(pieces[n])]

\* re.sub(r'[^\w\s]', '', tech).strip()
IsWordOrSpace(c) == IsWord(c) \/ IsSpace(c)

NormalizeTech(tech) == Strip(SelectSeq(tech, IsWordOrSpace))

(***************************************************************************)
(* get_technologies.  A dict is a sequence of entries in insertion order.  *)
(***************************************************************************)
\* the hard-coded synonym_map
SeedSynonymMap ==
    <<
       [key |-> <<"M", "a", "c">>,
        variations |-> <<<<"M", "a", "c">>,
                        <<"m", "a", "c", "O", "S">>,
                        <<"M", "a", "c", "B", "o", "o", "k">>>>],
       [key |-> <<"i", "P", "h", "o", "n", "e">>,
        variations |-> <<<<"i", "P", "h", "o", "n", "e">>,
                        <<"i", "O", "S">>>>],
       [key |-> <<"i", "P", "a", "d">>,
        variations |-> <<<<"i", "P", "a", "d">>,
                        <<"i", "O", "S">>>>],
       [key |-> <<"A", "p", "p", "l", "e", " ", "W", "a", "t", "c", "h">>,
        variations |-> <<<<"A", "p", "p", "l", "e", " ", "W", "a", "t", "c", "h">>,
                        <<"w", "a", "t", "c", "h", "O", "S">>>>],
       [key |-> <<"A", "p", "p", "l", "e", " ", "T", "V">>,
        variations |-> <<<<"A", "p", "p", "l", "e", " ", "T", "V">>,
                        <<"t", "v", "O", "S">>>>],
       [key |-> <<"A", "p", "p", "l", "e", " ", "P", "a", "y">>,
        variations |-> <<<<"A", "p", "p", "l", "e", " ", "P", "a", "y">>>>],
       [key |-> <<"i", "C", "l", "o", "u", "d">>,
        variations |-> <<<<"i", "C", "l", "o", "u", "d">>,
                        <<"C", "l", "o", "u", "d", " ", "C", "o", "m", "p", "u", "t", "i", "n", "g">>>>]
    >>

\* the keys of a dict, in iteration order
Keys(d) == [n \in 1..Len(d) |-> d[n].key]

\* key in d
HasKey(d, key) == \E n \in 1..Len(d) : d[n].key = key

\* d[key]
Lookup(d, key) == d[CHOOSE n \in 1..Len(d) : d[n].key = key].variations

\* InsertTech without the test for an existing key: the assignment replaces
\* the value of a key the dict already holds
InsertTechOverwrite(synonym_map, normalized_tech) ==
    IF normalized_tech = <<>> THEN synonym_map
    ELSE IF HasKey(synonym_map, normalized_tech)
    THEN [n \in 1..Len(synonym_map) |->
             IF synonym_map[n].key = normalized_tech
             THEN [key |-> normalized_tech, variations |-> <<normalized_tech>>]
             ELSE synonym_map[n]]
    ELSE Append(synonym_map,
                [key |-> normalized_tech, variations |-> <<normalized_tech>>])

\* if normalized_tech and normalized_tech not in synonym_map:
\*     synonym_map[normalized_tech] = [normalized_tech]
InsertTech(synonym_map, normalized_tech) ==
    IF normalized_tech # <<>> /\ ~HasKey(synonym_map, normalized_tech)
    THEN Append(synonym_map,
                [key |-> normalized_tech, variations |-> <<normalized_tech>>])
    ELSE synonym_map

(***************************************************************************)
(* parse_pdf_to_text: the pages joined, each followed by a newline, then   *)
(* re.sub(r'(\w+)-\n(\w+)', r'\1\2', text).                               *)
(***************************************************************************)
\* text += page_text + "\n", for every page
JoinPages(pages) == Concat([n \in 1..Len(pages) |-> pages[n] \o <<"\n">>])

\* the end of the run of word characters that starts at p
RECURSIVE RunEnd(_, _)
RunEnd(text, p) ==
    IF p < Len(text) /\ IsWord(text[p + 1]) THEN RunEnd(text, p + 1) ELSE p

\* a word character not yet consumed, "-", "\n", a word character: the hyphen
\* of a match of (\w+)-\n(\w+) is at q
HyphenBreakAt(text, pos, q) ==
    /\ q - 1 >= pos
    /\ q + 2 < Len(text)
    /\ IsWord(text[q])
    /\ text[q + 1] = "-"
    /\ text[q + 2] = "\n"
    /\ IsWord(text[q + 3])

\* the hyphen of the leftmost match at or after q, -1 when there is none
RECURSIVE NextHyphenBreak(_, _, _)
NextHyphenBreak(text, pos, q) ==
    IF q >= Len(text) THEN -1
    ELSE IF HyphenBreakAt(text, pos, q) THEN q
    ELSE NextHyphenBreak(text, pos, q + 1)

\* re.sub over text[pos:]: matches do not overlap, the scan resumes where
\* the second group ended
RECURSIVE RejoinFrom(_, _)
RejoinFrom(text, pos) ==
    LET q == NextHyphenBreak(text, pos, pos)
        r == RunEnd(text, q + 2)
    IN IF q = -1 THEN Slice(text, pos, Len(text))
       ELSE Slice(text, pos, q) \o Slice(text, q + 2, r) \o RejoinFrom(text, r)

ParsePdfToText(pages) == RejoinFrom(JoinPages(pages), 0)

(***************************************************************************)
(* find_context: re.compile(r'\b' + re.escape(variation) + r'\b',          *)
(* re.IGNORECASE).finditer(document).                                      *)
(***************************************************************************)
\* there is a word character at position p of the document
IsWordAt(document, p) ==
    p >= 0 /\ p < Len(document) /\ IsWord(document[p + 1])

\* WordBoundary with the \b left out of the pattern
WordBoundaryAnywhere(document, p) == TRUE

\* \b at position p: a word character on exactly one side
WordBoundary(document, p) ==
    IsWordAt(document, p - 1) # IsWordAt(document, p)

\* the pattern matches at position pos
MatchAt(document, variation, pos) ==
    /\ pos + Len(variation) <= Len(document)
    /\ WordBoundary(document, pos)
    /\ \A n \in 1..Len(variation) :
          Lower(document[pos + n]) = Lower(variation[n])
    /\ WordBoundary(document, pos + Len(variation))

\* the matches finditer yields from pos on, left to right, not overlapping
RECURSIVE FindIterFrom(_, _, _)
FindIterFrom(document, variation, pos) ==
    IF pos > Len(document) THEN <<>>
    ELSE IF MatchAt(document, variation, pos)
    THEN <<[start |-> pos, end |-> pos + Len(variation)]>>
         \o FindIterFrom(document, variation,
                         IF variation = <<>> THEN pos + 1
                         ELSE pos + Len(variation))
    ELSE FindIterFrom(document, variation, pos + 1)

FindIter(document, variation) == FindIterFrom(document, variation, 0)

\* MatchUsed without the break: the last match overwrites the earlier ones
MatchUsedLast(matches) == matches[Len(matches)]

\* for match in pattern.finditer(document): ...; break
\* the loop body runs for the first match only
MatchUsed(matches) == Head(matches)

\* ContextStart without max(0, ...)
ContextStartUnclipped(match, window) == match.start - window

\* start = max(0, match.start() - window)
ContextStart(match, window) == Max(0, match.start - window)

\* end = min(len(document), match.end() + window)
ContextEnd(document, match, window) ==
    Min(Len(document), match.end + window)

\* the entry of mentions for primary_tech; variation, start and end record
\* the match the context was cut around
Mention(document, primary_tech, n, match, window) ==
    [tech |-> primary_tech,
     context |-> Slice(document, ContextStart(match, window),
                       ContextEnd(document, match, window)),
     variation |-> n,
     start |-> match.start,
     end |-> match.end]

\* for variation in variations: from the n-th variation on; the mentions
\* with the entry of primary_tech added when a variation matches
RECURSIVE ScanVariations(_, _, _, _, _, _)
ScanVariations(mentions, document, primary_tech, variations, n, window) ==
    IF n > Len(variations) THEN mentions
    ELSE LET matches == FindIter(document, variations[n])
         IN IF matches # <<>>
            THEN Append(mentions,
                        Mention(document, primary_tech, n,
                                MatchUsed(matches), window))
            ELSE ScanVariations(mentions, document, primary_tech,
                                variations, n + 1, window)

\* for primary_tech, variations in technologies.items(): from entry n on
RECURSIVE FindContextFrom(_, _, _, _, _)
FindContextFrom(mentions, document, technologies, n, window) ==
    IF n > Len(technologies) THEN mentions
    ELSE FindContextFrom(
             ScanVariations(mentions, document, technologies[n].key,
                            technologies[n].variations, 1, window),
             document, technologies, n + 1, window)

FindContext(document, technologies, window) ==
    FindContextFrom(<<>>, document, technologies, 1, window)

(***************************************************************************)
(* The inputs: the pages of the PDF, the cells of the technologies column  *)
(* of the CSV, and the window of find_context.                             *)
(***************************************************************************)
\* find_context(document, technologies, window=500)
DefaultWindow == 500

\* page texts: "iPad", "IOS iPad", "iPad-" (a word broken at the end of the
\* page) and "AI ios"
PagePool ==
    {<<"i", "P", "a", "d">>,
     <<"I", "O", "S", " ", "i", "P", "a", "d">>,
     <<"i", "P", "a", "d", "-">>,
     <<"A", "I", " ", "i", "o", "s">>}

\* cells: a missing value, "macOS" and " Mac;AI.;"
CellPool ==
    {NaN,
     StrCell(<<"m", "a", "c", "O", "S">>),
     StrCell(<<" ", "M", "a", "c", ";", "A", "I", ".", ";">>)}

PageSeqs == UNION {[1..n -> PagePool] : n \in 0..MaxPages}

RowSeqs == UNION {[1..n -> CellPool] : n \in 0..MaxRows}

\* main calls find_context with the default window; the smaller windows
\* exercise the parameter on documents of the size modelled
Windows == (0..MaxWindow) \cup {DefaultWindow}

Scripts == {"main.py", "finbert.py"}

\* None, and a value that is not None
None == [none |-> TRUE, val |-> <<>>]

Some(v) == [none |-> FALSE, val |-> v]

\* a line of standard output; tech is the technology the line is about
Line(kind) == [kind |-> kind, tech |-> <<>>]

TechLine(kind, tech) == [kind |-> kind, tech |-> tech]

(***************************************************************************)
(* The state of a run of main.                                             *)
(***************************************************************************)
VARIABLES
    script,            \* the script that runs: main.py or finbert.py
    pc,                \* the position of main
    apple_10q_text,    \* the result of parse_pdf_to_text
    file_error,        \* the file whose FileNotFoundError was raised, if any
    df,                \* get_technologies: df['technologies']
    row,               \* get_technologies: the row the first loop is at
    tech_list,         \* get_technologies: tech_list
    tech,              \* get_technologies: the element the second loop is at
    synonym_map,       \* get_technologies: synonym_map
    gartner_techs,     \* the result of get_technologies
    window,            \* find_context: window
    tech_mentions,     \* the result of find_context, in insertion order
    item,              \* the item of tech_mentions the analysis loop is at
    calls,             \* the technologies the classifier was called for
    analysis_results,  \* finbert.py: analysis_results
    out                \* the lines printed

vars ==
    <<script, pc, apple_10q_text, file_error, df, row, tech_list, tech,
      synonym_map, gartner_techs, window, tech_mentions, item, calls,
      analysis_results, out>>

getTechVars == <<df, row, tech_list, tech, synonym_map, gartner_techs>>

analysisVars == <<window, tech_mentions, item, calls, analysis_results>>

Init ==
    /\ script \in Scripts
    /\ pc = "start"
    /\ apple_10q_text = None
    /\ file_error = "none"
    /\ df = <<>>
    /\ row = 1
    /\ tech_list = <<>>
    /\ tech = 1
    /\ synonym_map = <<>>
    /\ gartner_techs = None
    /\ window = DefaultWindow
    /\ tech_mentions = <<>>
    /\ item = 1
    /\ calls = <<>>
    /\ analysis_results = <<>>
    /\ out = <<>>

(***************************************************************************)
(* main, step 1: parse_pdf_to_text and get_technologies.                   *)
(***************************************************************************)
\* print("Step 1: Parsing documents...")
Start ==
    /\ pc = "start"
    /\ out' = Append(out, Line("Step1"))
    /\ pc' = "parse_pdf"
    /\ UNCHANGED <<script, apple_10q_text, file_error, getTechVars, analysisVars>>

\* parse_pdf_to_text(TEN_Q_FILE), the file exists
ParsePdf ==
    /\ pc = "parse_pdf"
    /\ \E pages \in PageSeqs :
          apple_10q_text' = Some(ParsePdfToText(pages))
    /\ pc' = "read_csv"
    /\ UNCHANGED <<script, file_error, getTechVars, analysisVars, out>>

\* parse_pdf_to_text(TEN_Q_FILE), the file is missing: PdfReader raises
\* FileNotFoundError.  main.py lets it reach the except clause of main, which
\* prints the error and returns; finbert.py returns None from
\* parse_pdf_to_text and goes on to get_technologies.
ParsePdfMissing ==
    /\ pc = "parse_pdf"
    /\ file_error' = "pdf"
    /\ IF script = "main.py"
       THEN /\ out' = Append(out, Line("Error"))
            /\ pc' = "done"
       ELSE /\ out' = out
            /\ pc' = "read_csv"
    /\ UNCHANGED <<script, apple_10q_text, getTechVars, analysisVars>>

\* get_technologies: df = pd.read_csv(file_path), synonym_map = {...},
\* tech_list = []
ReadCsv ==
    /\ pc = "read_csv"
    /\ \E rows \in RowSeqs : df' = rows
    /\ synonym_map' = SeedSynonymMap
    /\ tech_list' = <<>>
    /\ row' = 1
    /\ pc' = "extend"
    /\ UNCHANGED <<script, apple_10q_text, file_error, tech, gartner_techs,
                   analysisVars, out>>

\* get_technologies, the file is missing: pd.read_csv raises
\* FileNotFoundError.  main.py: the except clause of main prints the error
\* and returns; finbert.py: get_technologies returns None.
ReadCsvMissing ==
    /\ pc = "read_csv"
    /\ file_error' = IF file_error = "pdf" THEN "both" ELSE "csv"
    /\ IF script = "main.py"
       THEN /\ out' = Append(out, Line("Error"))
            /\ pc' = "done"
       ELSE /\ out' = out
            /\ pc' = "step2"
    /\ UNCHANGED <<script, apple_10q_text, getTechVars, analysisVars>>

\* for techs in df['technologies']:
\*     tech_list.extend([t.strip() for t in str(techs).split(';')])
ExtendTechList ==
    /\ pc = "extend"
    /\ row <= Len(df)
    /\ tech_list' = tech_list \o RowTechs(df[row])
    /\ row' = row + 1
    /\ UNCHANGED <<script, pc, apple_10q_text, file_error, df, tech,
                   synonym_map, gartner_techs, analysisVars, out>>

\* the first loop is over; main.py prints tech_list
StartNormalization ==
    /\ pc = "extend"
    /\ row > Len(df)
    /\ out' = IF script = "main.py" THEN Append(out, Line("TechList")) ELSE out
    /\ tech' = 1
    /\ pc' = "normalize"
    /\ UNCHANGED <<script, apple_10q_text, file_error, df, row, tech_list,
                   synonym_map, gartner_techs, analysisVars>>

\* for tech in tech_list: normalize it and add it when it is no key yet
Normalize ==
    /\ pc = "normalize"
    /\ tech <= Len(tech_list)
    /\ synonym_map' = InsertTech(synonym_map, NormalizeTech(tech_list[tech]))
    /\ tech' = tech + 1
    /\ UNCHANGED <<script, pc, apple_10q_text, file_error, df, row, tech_list,
                   gartner_techs, analysisVars, out>>

\* return synonym_map; main.py prints it first
ReturnSynonymMap ==
    /\ pc = "normalize"
    /\ tech > Len(tech_list)
    /\ out' = IF script = "main.py" THEN Append(out, Line("SynonymMap")) ELSE out
    /\ gartner_techs' = Some(synonym_map)
    /\ pc' = "step2"
    /\ UNCHANGED <<script, apple_10q_text, file_error, df, row, tech_list,
                   tech, synonym_map, analysisVars>>

(***************************************************************************)
(* main, step 2: find_context.                                             *)
(***************************************************************************)
\* finbert.py: if apple_10q_text is None or gartner_techs is None
FilesMissing(text, techs) == text.none \/ techs.none

\* finbert.py: a file was missing; print the error and return
LoadFailed ==
    /\ pc = "step2"
    /\ script = "finbert.py"
    /\ FilesMissing(apple_10q_text, gartner_techs)
    /\ out' = Append(out, Line("Error"))
    /\ pc' = "done"
    /\ UNCHANGED <<script, apple_10q_text, file_error, getTechVars, analysisVars>>

\* print("Step 2: Finding technology mentions...")
Step2 ==
    /\ pc = "step2"
    /\ script = "finbert.py" => ~FilesMissing(apple_10q_text, gartner_techs)
    /\ out' = Append(out, Line("Step2"))
    /\ pc' = "find_context"
    /\ UNCHANGED <<script, apple_10q_text, file_error, getTechVars, analysisVars>>

\* main.py, find_context: the contexts found, one block for each mention
ContextLines(mentions) ==
    <<Line("ContextsHeader")>>
    \o [n \in 1..Len(mentions) |-> TechLine("Context", mentions[n].tech)]

\* tech_mentions = find_context(apple_10q_text, gartner_techs)
CallFindContext ==
    /\ pc = "find_context"
    /\ \E w \in Windows :
          /\ window' = w
          /\ tech_mentions' =
                 FindContext(apple_10q_text.val, gartner_techs.val, w)
    /\ out' = IF script = "main.py"
              THEN out \o ContextLines(tech_mentions')
              ELSE out
    /\ pc' = "step3"
    /\ UNCHANGED <<script, apple_10q_text, file_error, getTechVars, item,
                   calls, analysis_results>>

(***************************************************************************)
(* main, step 3: one classifier call for each item of tech_mentions.       *)
(* The classifier's answer is not part of the state: a call either returns *)
(* an analysis or raises.                                                  *)
(***************************************************************************)
\* NoMentions with the test left out
NoMentionsNever(mentions) == FALSE

\* if not tech_mentions
NoMentions(mentions) == mentions = <<>>

\* print("No technologies found in the document."); return
NothingFound ==
    /\ pc = "step3"
    /\ NoMentions(tech_mentions)
    /\ out' = out \o <<Line("Step3"), Line("NoTech")>>
    /\ pc' = "done"
    /\ UNCHANGED <<script, apple_10q_text, file_error, getTechVars, analysisVars>>

\* the analysis loop starts; finbert.py: analysis_results = []
BeginAnalysis ==
    /\ pc = "step3"
    /\ ~NoMentions(tech_mentions)
    /\ out' = Append(out, Line("Step3"))
    /\ item' = 1
    /\ analysis_results' = <<>>
    /\ pc' = "analyze"
    /\ UNCHANGED <<script, apple_10q_text, file_error, getTechVars, window,
                   tech_mentions, calls>>

\* for tech, context in tech_mentions.items(): the classifier returns.
\* main.py prints the analysis; finbert.py appends a row to analysis_results.
Analyze ==
    /\ pc = "analyze"
    /\ item <= Len(tech_mentions)
    /\ LET t == tech_mentions[item].tech
       IN /\ calls' = Append(calls, t)
          /\ IF script = "main.py"
             THEN /\ out' = out \o <<TechLine("Analyzing", t),
                                      TechLine("FinalAnalysis", t)>>
                  /\ analysis_results' = analysis_results
             ELSE /\ out' = Append(out, TechLine("Analyzing", t))
                  /\ analysis_results' =
                         Append(analysis_results, [Technology |-> t])
    /\ item' = item + 1
    /\ UNCHANGED <<script, pc, apple_10q_text, file_error, getTechVars,
                   window, tech_mentions>>

\* analyze_with_openai or analyze_with_finbert raises (the API call fails,
\* json.loads rejects the answer, the model fails): main has no handler
\* around the call, the exception ends the run
AnalyzeRaises ==
    /\ pc = "analyze"
    /\ item <= Len(tech_mentions)
    /\ calls' = Append(calls, tech_mentions[item].tech)
    /\ out' = Append(out, TechLine("Analyzing", tech_mentions[item].tech))
    /\ pc' = "crashed"
    /\ UNCHANGED <<script, apple_10q_text, file_error, getTechVars, window,
                   tech_mentions, item, analysis_results>>

\* TableRows printing the results last to first
TableRowsReversed(results) ==
    [n \in 1..Len(results) |->
        TechLine("TableRow", results[Len(results) + 1 - n].Technology)]

\* finbert.py: for result in analysis_results: print the row
TableRows(results) ==
    [n \in 1..Len(results) |-> TechLine("TableRow", results[n].Technology)]

\* the loop is over; finbert.py prints the table
Finish ==
    /\ pc = "analyze"
    /\ item > Len(tech_mentions)
    /\ out' = IF script = "finbert.py"
              THEN out \o <<Line("TableHeader")>> \o TableRows(analysis_results)
              ELSE out
    /\ pc' = "done"
    /\ UNCHANGED <<script, apple_10q_text, file_error, getTechVars, analysisVars>>

Next ==
    \/ Start
    \/ ParsePdf
    \/ ParsePdfMissing
    \/ ReadCsv
    \/ ReadCsvMissing
    \/ ExtendTechList
    \/ StartNormalization
    \/ Normalize
    \/ ReturnSynonymMap
    \/ LoadFailed
    \/ Step2
    \/ CallFindContext
    \/ NothingFound
    \/ BeginAnalysis
    \/ Analyze
    \/ AnalyzeRaises
    \/ Finish

Spec == Init /\ [][Next]_vars

(***************************************************************************)
(* Notions the properties are stated with.                                 *)
(***************************************************************************)
\* a string with every character case-folded
LowerStr(s) == [n \in 1..Len(s) |-> Lower(s[n])]

\* the variation occurs in the document at position p, whatever surrounds it
OccursAt(document, variation, p) ==
    /\ p >= 0
    /\ p + Len(variation) <= Len(document)
    /\ LowerStr(SubSeq(document, p + 1, p + Len(variation))) = LowerStr(variation)

\* the occurrence at p is a whole word: no word character right before it
\* and none right after it
WholeWordAt(document, variation, p) ==
    /\ OccursAt(document, variation, p)
    /\ p > 0 => ~IsWord(document[p])
    /\ p + Len(variation) < Len(document)
         => ~IsWord(document[p + Len(variation) + 1])

\* some variation of the list has a whole-word occurrence in the document
Mentioned(document, variations) ==
    \E n \in 1..Len(variations) : \E p \in 0..Len(document) :
        WholeWordAt(document, variations[n], p)

\* the index entry has an item in the mentions
HasMention(mentions, key) == \E n \in 1..Len(mentions) : mentions[n].tech = key

\* the variation of some entry of the index
IsVariation(d, name) ==
    \E n \in 1..Len(d) : \E k \in 1..Len(d[n].variations) :
        d[n].variations[k] = name

\* get_technologies has returned an index
Returned == ~gartner_techs.none

\* find_context has returned
Located ==
    \/ pc \in {"step3", "analyze", "crashed"}
    \/ pc = "done" /\ file_error = "none" /\ ~FilesMissing(apple_10q_text, gartner_techs)

\* the technologies of the report rows printed, in the order printed
IsReportRow(line) == line.kind \in {"FinalAnalysis", "TableRow"}

ReportRows(lines) ==
    LET rows == SelectSeq(lines, IsReportRow)
    IN [n \in 1..Len(rows) |-> rows[n].tech]

\* the lines that report a missing file or that nothing was found
IsOutcomeLine(line) == line.kind \in {"Error", "NoTech"}

OutcomeLines(lines) == SelectSeq(lines, IsOutcomeLine)

(***************************************************************************)
(* get_technologies as a function of the rows: the two loops run to the    *)
(* end.                                                                    *)
(***************************************************************************)
RECURSIVE TechListOf(_)
TechListOf(rows) ==
    IF rows = <<>> THEN <<>>
    ELSE RowTechs(Head(rows)) \o TechListOf(Tail(rows))

RECURSIVE NormalizeAll(_, _)
NormalizeAll(d, techs) ==
    IF techs = <<>> THEN d
    ELSE NormalizeAll(InsertTech(d, NormalizeTech(Head(techs))), Tail(techs))

GetTechnologies(rows) == NormalizeAll(SeedSynonymMap, TechListOf(rows))

\* the rows that hold a value
IsPresent(cell) == ~cell.isna

(***************************************************************************)
(* The synonym index.                                                      *)
(***************************************************************************)
\* C1: in the index get_technologies returns, every canonical key has a
\* non-empty variation list, and no variation string, compared without
\* regard to case, is in the lists of two different keys.
C1_VariationsNonEmptyAndUnshared ==
    Returned =>
        LET d == gartner_techs.val
        IN /\ \A n \in 1..Len(d) : d[n].variations # <<>>
           /\ \A n, m \in 1..Len(d) :
                 n # m =>
                     \A k \in 1..Len(d[n].variations) :
                     \A l \in 1..Len(d[m].variations) :
                         LowerStr(d[n].variations[k]) # LowerStr(d[m].variations[l])

\* C2: a step of the normalization loop inserts the normalized name exactly
\* when the name is neither a key of the index nor a variation of an entry
\* of the index at that moment.
C2_InsertedIffNeitherKeyNorVariation ==
    [][(/\ pc = "normalize"
        /\ tech <= Len(tech_list)
        /\ NormalizeTech(tech_list[tech]) # <<>>)
       => LET name == NormalizeTech(tech_list[tech])
          IN (synonym_map' # synonym_map)
                 <=> (~HasKey(synonym_map, name) /\ ~IsVariation(synonym_map, name))]_vars

\* C3: a missing row contributes nothing: the index returned is the index
\* built from the rows that hold a value.
C3_MissingRowContributesNothing ==
    Returned => gartner_techs.val = GetTechnologies(SelectSeq(df, IsPresent))

\* C8: every seed key maps to exactly its hard-coded variation list, while
\* the index is built and when it is returned.
SeedEntriesIn(d) ==
    \A n \in 1..Len(SeedSynonymMap) :
        /\ HasKey(d, SeedSynonymMap[n].key)
        /\ Lookup(d, SeedSynonymMap[n].key) = SeedSynonymMap[n].variations
        /\ Cardinality({m \in 1..Len(d) : d[m].key = SeedSynonymMap[n].key}) = 1

C8_SeedEntriesSurvive ==
    /\ pc \in {"extend", "normalize"} => SeedEntriesIn(synonym_map)
    /\ Returned => SeedEntriesIn(gartner_techs.val)

\* C8 witness: an index was returned for rows that name a seed key and a
\* seed alias that is no key.
C8_Witness ==
    /\ Returned
    /\ \E n \in 1..Len(tech_list) :
          HasKey(SeedSynonymMap, NormalizeTech(tech_list[n]))
    /\ \E n \in 1..Len(tech_list) :
          /\ ~HasKey(SeedSynonymMap, NormalizeTech(tech_list[n]))
          /\ IsVariation(SeedSynonymMap, NormalizeTech(tech_list[n]))

(***************************************************************************)
(* The mentions.                                                           *)
(***************************************************************************)
\* the variation list of the entry a mention belongs to
VariationsOf(mention) == Lookup(gartner_techs.val, mention.tech)

\* C4: the match of every mention is the leftmost whole-word occurrence of
\* the first variation, in list order, that has a whole-word occurrence in
\* the document, and no technology has two mentions.
C4_FirstVariationLeftmostMatch ==
    \A n \in 1..Len(tech_mentions) :
        LET m == tech_mentions[n]
            document == apple_10q_text.val
        IN /\ HasKey(gartner_techs.val, m.tech)
           /\ m.variation \in 1..Len(VariationsOf(m))
           /\ WholeWordAt(document, VariationsOf(m)[m.variation], m.start)
           /\ m.end = m.start + Len(VariationsOf(m)[m.variation])
           /\ \A p \in 0..(m.start - 1) :
                 ~WholeWordAt(document, VariationsOf(m)[m.variation], p)
           /\ \A k \in 1..(m.variation - 1) : \A p \in 0..Len(document) :
                 ~WholeWordAt(document, VariationsOf(m)[k], p)
           /\ \A l \in 1..Len(tech_mentions) :
                 l # n => tech_mentions[l].tech # m.tech

\* C4 witness: a mention whose variation has a second whole-word occurrence
\* further right, while a later variation of the entry occurs further left.
C4_Witness ==
    \E n \in 1..Len(tech_mentions) :
        LET m == tech_mentions[n]
            document == apple_10q_text.val
        IN /\ \E p \in (m.start + 1)..Len(document) :
                 WholeWordAt(document, VariationsOf(m)[m.variation], p)
           /\ \E k \in (m.variation + 1)..Len(VariationsOf(m)) :
              \E p \in 0..(m.start - 1) :
                 WholeWordAt(document, VariationsOf(m)[k], p)

\* C5: the context of a match spanning [s, e) is
\* document[max(0, s - W) : min(len(document), e + W)]: it lies inside the
\* document, is no longer than 2 * W plus the matched variation, and starts
\* at position 0 when s <= W.
C5_ContextIsClippedWindow ==
    \A n \in 1..Len(tech_mentions) :
        LET m == tech_mentions[n]
            document == apple_10q_text.val
            lo == IF m.start - window < 0 THEN 0 ELSE m.start - window
            hi == IF m.end + window > Len(document)
                  THEN Len(document) ELSE m.end + window
        IN /\ 0 <= lo /\ lo <= m.start /\ m.end <= hi /\ hi <= Len(document)
           /\ m.context = SubSeq(document, lo + 1, hi)
           /\ Len(m.context) <= 2 * window + (m.end - m.start)
           /\ m.end - m.start = Len(VariationsOf(m)[m.variation])
           /\ m.start <= window =>
                 m.context = SubSeq(document, 1, Len(m.context))

\* C5 witness: with a window above 0, one context is cut at the start of
\* the document and another, of a match further than the window from the
\* start, is cut at its end.
C5_Witness ==
    /\ window > 0
    /\ \E n \in 1..Len(tech_mentions) : tech_mentions[n].start < window
    /\ \E n \in 1..Len(tech_mentions) :
          /\ tech_mentions[n].start > window
          /\ tech_mentions[n].end + window > Len(apple_10q_text.val)

\* C6: a match is an occurrence, without regard to case, with no word
\* character right before or right after it, and, when find_context
\* returns, an entry none of whose variations has a whole-word occurrence
\* has no mention (the mentions do not change afterwards).
C6_WholeWordMatchesOnly ==
    /\ \A n \in 1..Len(tech_mentions) :
          LET m == tech_mentions[n]
              document == apple_10q_text.val
          IN /\ OccursAt(document, VariationsOf(m)[m.variation], m.start)
             /\ m.start > 0 => ~IsWord(document[m.start])
             /\ m.end < Len(document) => ~IsWord(document[m.end + 1])
    /\ pc = "step3" =>
          \A n \in 1..Len(gartner_techs.val) :
              ~Mentioned(apple_10q_text.val, gartner_techs.val[n].variations)
                  => ~HasMention(tech_mentions, gartner_techs.val[n].key)

\* C6 witness: find_context has returned, a variation of an entry occurs in
\* the document inside a longer word only, and the entry has no mention.
C6_Witness ==
    /\ pc = "step3"
    /\ \E n \in 1..Len(gartner_techs.val) :
          /\ \E k \in 1..Len(gartner_techs.val[n].variations) :
             \E p \in 0..Len(apple_10q_text.val) :
                 OccursAt(apple_10q_text.val, gartner_techs.val[n].variations[k], p)
          /\ ~Mentioned(apple_10q_text.val, gartner_techs.val[n].variations)
          /\ ~HasMention(tech_mentions, gartner_techs.val[n].key)

(***************************************************************************)
(* The analysis loop and the report.                                       *)
(***************************************************************************)
\* the keys of the index that have a mention, in the order of the index
MentionedKeys ==
    LET Has(key) == HasMention(tech_mentions, key)
    IN SelectSeq(Keys(gartner_techs.val), Has)

C9_OneCallAndOneRowPerMention ==
    /\ pc = "analyze" => calls = SubSeq(MentionedKeys, 1, item - 1)
    /\ (pc = "done" /\ Located) =>
          /\ calls = MentionedKeys
          /\ ReportRows(out) = MentionedKeys

\* C9 witness: a run ended with three technologies reported while other
\* entries of the index have no mention.
C9_Witness ==
    /\ pc = "done"
    /\ Len(ReportRows(out)) >= 3
    /\ Len(gartner_techs.val) > Len(tech_mentions)

\* C10: classifier calls and report rows occur only when both files were
\* loaded and find_context found a mention; a run with a missing file or
\* without mentions does not fail, and ends with one message reporting it,
\* no classifier call and no report row.
C10_NoAnalysisWithoutInputsAndMentions ==
    /\ (calls # <<>> \/ ReportRows(out) # <<>>) =>
          /\ file_error = "none"
          /\ ~FilesMissing(apple_10q_text, gartner_techs)
          /\ tech_mentions # <<>>
    /\ (file_error # "none" \/ (Located /\ tech_mentions = <<>>)) =>
          /\ pc # "crashed"
          /\ pc = "done" \/ ENABLED Next
          /\ pc = "done" =>
                /\ Len(OutcomeLines(out)) = 1
                /\ calls = <<>>
                /\ ReportRows(out) = <<>>

\* C10 witness: both files were loaded, the document is not empty, no
\* technology is mentioned in it, and the run has ended.
C10_Witness ==
    /\ pc = "done"
    /\ file_error = "none"
    /\ apple_10q_text.val # <<>>
    /\ tech_mentions = <<>>
    /\ Len(OutcomeLines(out)) = 1

====
